---- MODULE Spec2Model ----
(***************************************************************************)
(* Model of the YAVIQ Python SDK client (src/python/tokenopt.py).          *)
(*                                                                         *)
(* A state is the client object (if one has been constructed) together     *)
(* with what the most recent call of a public operation did: its           *)
(* arguments, the reply the server gave to its request, the requests it    *)
(* issued, the lines it printed and whether it returned or raised.         *)
(*                                                                         *)
(* Python values are tagged records (field t is the type).  A str is the   *)
(* sequence of its pieces: single characters for caller text, so that      *)
(* split() is computed, and whole fragments for formatted messages.        *)
(***************************************************************************)
EXTENDS Integers, Sequences, FiniteSets, TLC

\* Largest number of words in a caller-supplied text.
MaxWords == 3

-----------------------------------------------------------------------------
\* Python values

PyNone == [t |-> "none"]
PyInt(n) == [t |-> "int", n |-> n]
PyBool(b) == [t |-> "bool", b |-> b]
PyStr(s) == [t |-> "str", s |-> s]
PyList(items) == [t |-> "list", items |-> items]
PyDict(d) == [t |-> "dict", d |-> d]
\* A float holding a percentage, kept exactly in hundredths (round(x, 2)).
PyHundredths(h) == [t |-> "float", h |-> h]

EmptyDict == PyDict([k \in {} |-> PyNone])

\* bool(v)
Truthy(v) ==
    CASE v.t = "none" -> FALSE
      [] v.t = "bool" -> v.b
      [] v.t = "int" -> v.n # 0
      [] v.t = "float" -> v.h # 0
      [] v.t = "str" -> v.s # <<>>
      [] v.t = "list" -> v.items # <<>>
      [] v.t = "dict" -> DOMAIN v.d # {}

\* a or b
Or(a, b) == IF Truthy(a) THEN a ELSE b

\* d.get(k, default) on a dict d
Get(d, k, default) == IF k \in DOMAIN d.d THEN d.d[k] ELSE default

\* str(v), as the pieces an f-string inserts
Str(v) ==
    CASE v.t = "str" -> v.s
      [] v.t = "int" -> <<ToString(v.n)>>
      [] v.t = "none" -> <<"None">>
      [] v.t = "bool" -> IF v.b THEN <<"True">> ELSE <<"False">>
      [] OTHER -> <<"<" \o v.t \o ">">>

-----------------------------------------------------------------------------
\* Exceptions and outcomes

DEFAULT_ENDPOINT == <<"https://api.yaviq.local">>

YAVIQError(cls, message, status_code, code) ==
    [cls |-> cls, sdk |-> TRUE, message |-> message,
     status_code |-> status_code,
     code |-> IF code = "" THEN "YAVIQ_ERROR" ELSE code]

NetworkError(message, status_code) ==
    YAVIQError("NetworkError", message, status_code, "NETWORK_ERROR")

ValidationError(message) ==
    YAVIQError("ValidationError", message, PyInt(400), "VALIDATION_ERROR")

TOONParseError(message) ==
    YAVIQError("TOONParseError", message, PyInt(400), "TOON_PARSE_ERROR")

EngineFailureError(message, status_code) ==
    YAVIQError("EngineFailureError", message, Or(status_code, PyInt(500)),
               "ENGINE_FAILURE")

SchemaMismatchError(message) ==
    YAVIQError("SchemaMismatchError", message, PyInt(400), "SCHEMA_MISMATCH")

\* An exception of the interpreter or the standard library: not a YAVIQError,
\* it has neither a code nor a status_code.
BuiltinError(cls, message) ==
    [cls |-> cls, sdk |-> FALSE, message |-> message,
     status_code |-> PyNone, code |-> "N/A"]

Return(v) == [kind |-> "return", value |-> v]
Raise(e) == [kind |-> "raise", exc |-> e]

-----------------------------------------------------------------------------
\* The wire: what the server answers to one POST

\* A response body: its text, and the value json.loads gives when the text
\* is valid JSON.
JsonBody(text, value) == [text |-> text, valid |-> TRUE, json |-> value]
TextBody(text) == [text |-> text, valid |-> FALSE, json |-> PyNone]

\* urlopen returns the response (2xx), raises HTTPError (any other status)
\* or raises URLError (no HTTP response at all).
HttpOk(body) == [kind |-> "ok", code |-> 200, body |-> body]
HttpError(code, body) == [kind |-> "http_error", code |-> code, body |-> body]
UrlError(reason) ==
    [kind |-> "url_error", code |-> 0, body |-> TextBody(<<reason>>)]
NoReply == [kind |-> "none", code |-> 0, body |-> TextBody(<<>>)]

\* json.loads(text)
JsonLoads(body) ==
    IF body.valid
    THEN Return(body.json)
    ELSE Raise(BuiltinError("JSONDecodeError",
                            PyStr(<<"Expecting value: line 1 column 1 (char 0)">>)))

RECURSIVE Rstrip(_, _)
\* s.rstrip(ch)
Rstrip(s, ch) ==
    IF s # <<>> /\ s[Len(s)] = ch
    THEN Rstrip(SubSeq(s, 1, Len(s) - 1), ch)
    ELSE s

\* The Request object handed to urlopen.
Request(self, path, body) ==
    [url |-> Rstrip(self.endpoint, "/") \o <<path>>,
     method |-> "POST",
     data |-> body,
     authorization |-> <<"Bearer ">> \o self.api_key]

\* The try block with truth tests in place of "is True" and "is False": a
\* mapping without a success key is taken for a failure envelope.
HttpOkOutcome_TruthTest(body) ==
    LET parsed == JsonLoads(body) IN
    IF parsed.kind = "raise" THEN parsed
    ELSE LET result == parsed.value IN
         IF /\ result.t = "dict"
            /\ Truthy(Get(result, "success", PyNone))
            /\ "data" \in DOMAIN result.d
         THEN Return(result.d["data"])
         ELSE IF /\ result.t = "dict"
                 /\ ~Truthy(Get(result, "success", PyNone))
              THEN Raise(EngineFailureError(
                       Get(result, "error", PyStr(<<"Unknown error">>)),
                       Get(result, "status", PyInt(500))))
              ELSE Return(result)

\* The try block of _http_post: the 2xx response is parsed and unwrapped.
HttpOkOutcome(body) ==
    LET parsed == JsonLoads(body) IN
    IF parsed.kind = "raise" THEN parsed
    ELSE LET result == parsed.value IN
         IF /\ result.t = "dict"
            /\ Get(result, "success", PyNone) = PyBool(TRUE)
            /\ "data" \in DOMAIN result.d
         THEN Return(result.d["data"])
         ELSE IF /\ result.t = "dict"
                 /\ Get(result, "success", PyNone) = PyBool(FALSE)
              THEN Raise(EngineFailureError(
                       Get(result, "error", PyStr(<<"Unknown error">>)),
                       Get(result, "status", PyInt(500))))
              ELSE Return(result)

\* error_msg of the HTTPError handler
HttpErrorMsg(code, body) ==
    LET error_body == PyStr(body.text)
        fallback == Or(error_body, PyStr(<<"HTTP ", ToString(code)>>))
    IN  IF ~body.valid THEN fallback                \* JSONDecodeError
        ELSE IF body.json.t # "dict" THEN fallback  \* AttributeError
        ELSE Or(Or(Get(body.json, "error", PyNone),
                   Get(body.json, "message", PyNone)),
                error_body)

\* The HTTPError handler with the lower limit of the 4xx range exclusive:
\* status 400 falls through to NetworkError.
HttpErrorOutcome_Exclusive400(code, body) ==
    LET error_msg == HttpErrorMsg(code, body) IN
    IF 400 < code /\ code < 500
    THEN Raise(ValidationError(PyStr(
             <<"Request failed (", ToString(code), "): ">> \o Str(error_msg))))
    ELSE IF code >= 500
    THEN Raise(EngineFailureError(PyStr(
             <<"Server error (", ToString(code), "): ">> \o Str(error_msg)),
             PyInt(code)))
    ELSE Raise(NetworkError(PyStr(
             <<"Request failed (", ToString(code), "): ">> \o Str(error_msg)),
             PyInt(code)))

\* The HTTPError handler of _http_post.
HttpErrorOutcome(code, body) ==
    LET error_msg == HttpErrorMsg(code, body) IN
    IF 400 <= code /\ code < 500
    THEN Raise(ValidationError(PyStr(
             <<"Request failed (", ToString(code), "): ">> \o Str(error_msg))))
    ELSE IF code >= 500
    THEN Raise(EngineFailureError(PyStr(
             <<"Server error (", ToString(code), "): ">> \o Str(error_msg)),
             PyInt(code)))
    ELSE Raise(NetworkError(PyStr(
             <<"Request failed (", ToString(code), "): ">> \o Str(error_msg)),
             PyInt(code)))

\* _http_post with one retry after a URLError: a second urlopen is issued and
\* fails the same way.
_http_post_Retry(self, path, body, reply) ==
    [sent |-> IF reply.kind = "url_error"
              THEN <<Request(self, path, body), Request(self, path, body)>>
              ELSE <<Request(self, path, body)>>,
     outcome |->
        CASE reply.kind = "ok" -> HttpOkOutcome(reply.body)
          [] reply.kind = "http_error" -> HttpErrorOutcome(reply.code, reply.body)
          [] reply.kind = "url_error" ->
                Raise(NetworkError(
                    PyStr(<<"Network error: ">> \o reply.body.text),
                    PyNone))]

\* _http_post: one urlopen, whose answer is reply.  Gives the outcome and
\* the requests issued.
_http_post(self, path, body, reply) ==
    [sent |-> <<Request(self, path, body)>>,
     outcome |->
        CASE reply.kind = "ok" -> HttpOkOutcome(reply.body)
          [] reply.kind = "http_error" -> HttpErrorOutcome(reply.code, reply.body)
          [] reply.kind = "url_error" ->
                Raise(NetworkError(
                    PyStr(<<"Network error: ">> \o reply.body.text),
                    PyNone))]

-----------------------------------------------------------------------------
\* Local helpers

\* _normalize_mode with mode_map.get(mode, mode): an unknown mode is kept.
_normalize_mode_KeepUnknown(mode) ==
    CASE mode = "low" -> "safe"
      [] mode = "safe" -> "safe"
      [] mode = "medium" -> "balanced"
      [] mode = "balanced" -> "balanced"
      [] mode = "high" -> "aggressive"
      [] mode = "aggressive" -> "aggressive"
      [] OTHER -> mode

\* _normalize_mode
_normalize_mode(mode) ==
    CASE mode = "low" -> "safe"
      [] mode = "safe" -> "safe"
      [] mode = "medium" -> "balanced"
      [] mode = "balanced" -> "balanced"
      [] mode = "high" -> "aggressive"
      [] mode = "aggressive" -> "aggressive"
      [] OTHER -> "balanced"

\* The characters str.split() separates on.
Whitespace == {" ", "\n", "\t"}

\* len(s.strip().split()): the number of maximal runs of non-whitespace
SplitLen(s) ==
    Cardinality({i \in 1..Len(s) :
                    /\ s[i] \notin Whitespace
                    /\ (i = 1 \/ s[i - 1] \in Whitespace)})

\* round(num / den) for den > 0: to nearest, ties to even
RoundHalfEven(num, den) ==
    LET q == num \div den
        r == num % den
    IN  IF 2 * r < den THEN q
        ELSE IF 2 * r > den THEN q + 1
        ELSE IF q % 2 = 0 THEN q ELSE q + 1

\* count_tokens: int(round(words / 0.75)), words / 0.75 = 4 * words / 3
count_tokens(text) ==
    IF ~Truthy(text) THEN Return(PyInt(0))
    ELSE IF text.t # "str"
    THEN Raise(BuiltinError("AttributeError",
                            PyStr(<<"object has no attribute 'strip'">>)))
    ELSE Return(PyInt(RoundHalfEven(4 * SplitLen(text.s), 3)))

\* The validation without the isinstance test: only falsy input is refused.
InvalidText_FalsyOnly(input_text) == ~Truthy(input_text)

\* not input_text or not isinstance(input_text, str)
InvalidText(input_text) == ~Truthy(input_text) \/ input_text.t # "str"

\* What a call did: its outcome, the requests it issued, the lines it printed.
Done(outcome, sent, printed) ==
    [outcome |-> outcome, sent |-> sent, printed |-> printed]

NoAttributeGet ==
    BuiltinError("AttributeError", PyStr(<<"object has no attribute 'get'">>))

-----------------------------------------------------------------------------
\* The public methods.  Each takes the client, the call's arguments and the
\* reply the server gives if it is asked, and gives Done(...).

Auto == PyStr(<<"auto">>)

\* The constructor without the check of the resolved key.
ClientInit_NoKeyCheck(api_key, endpoint, env_key, env_endpoint) ==
    LET key == Or(api_key, env_key)
        ep == Or(endpoint, env_endpoint)
    IN  Return([api_key |-> IF key.t = "str" THEN key.s ELSE <<>>,
                endpoint |-> ep.s, send_telemetry |-> FALSE])

\* YAVIQClient.__init__, with the value of the YAVIQ_API_KEY and
\* YAVIQ_ENDPOINT environment variables (os.environ.get's default when unset).
ClientInit(api_key, endpoint, env_key, env_endpoint) ==
    LET key == Or(api_key, env_key)
        ep == Or(endpoint, env_endpoint)
    IN  IF ~Truthy(key)
        THEN Raise(ValidationError(PyStr(<<"API key is required. Set YAVIQ_API_KEY environment variable or pass api_key to constructor.">>)))
        ELSE Return([api_key |-> key.s, endpoint |-> ep.s,
                     send_telemetry |-> FALSE])

\* the telemetry line of optimize
OptimizeTelemetry(result) ==
    <<"[Telemetry] optimize: tokensSaved=">>
        \o Str(Get(result, "tokensSaved", PyInt(0)))
        \o <<", compression=">>
        \o Str(Get(result, "compression", PyInt(0))) \o <<"%">>

optimize(self, input_text, mode, format, model, reply) ==
    IF InvalidText(input_text)
    THEN Done(Raise(ValidationError(PyStr(<<"Input is required and must be a string">>))),
              <<>>, <<>>)
    ELSE LET r == _http_post(self, "/v1/optimize",
                     PyDict([input |-> input_text, format |-> format,
                             mode |-> PyStr(<<_normalize_mode(mode)>>),
                             model |-> model]),
                     reply)
         IN  IF r.outcome.kind = "raise" THEN Done(r.outcome, r.sent, <<>>)
             ELSE IF ~self.send_telemetry THEN Done(r.outcome, r.sent, <<>>)
             ELSE IF r.outcome.value.t # "dict"
             THEN Done(Raise(NoAttributeGet), r.sent, <<>>)
             ELSE Done(r.outcome, r.sent,
                       <<OptimizeTelemetry(r.outcome.value)>>)

\* the telemetry line of optimize_and_run
RunTelemetry(metrics) ==
    <<"[Telemetry] optimize_and_run: tokensUsed=">>
        \o Str(Get(metrics, "total_tokens_used", PyInt(0)))
        \o <<", savings=">>
        \o Str(Get(metrics, "final_total_savings_percent", PyStr(<<"0%">>)))

optimize_and_run(self, input_text, mode, format, model, use_rag, use_history, history, rag_chunk_limit, debug, reply) ==
    IF InvalidText(input_text)
    THEN Done(Raise(ValidationError(PyStr(<<"Input is required and must be a string">>))),
              <<>>, <<>>)
    ELSE LET r == _http_post(self, "/v1/optimize-run",
                     PyDict([userId |-> PyStr(<<"sdk_user">>),
                             input |-> input_text, format |-> format,
                             mode |-> PyStr(<<_normalize_mode(mode)>>),
                             model |-> model, use_rag |-> use_rag,
                             use_history |-> use_history, history |-> history,
                             rag_chunk_limit |-> rag_chunk_limit,
                             debug |-> debug]),
                     reply)
         IN  IF r.outcome.kind = "raise" THEN Done(r.outcome, r.sent, <<>>)
             ELSE IF ~self.send_telemetry THEN Done(r.outcome, r.sent, <<>>)
             ELSE IF r.outcome.value.t # "dict"
             THEN Done(Raise(NoAttributeGet), r.sent, <<>>)
             ELSE LET metrics == Get(r.outcome.value, "metrics", EmptyDict) IN
                  IF metrics.t # "dict"
                  THEN Done(Raise(NoAttributeGet), r.sent, <<>>)
                  ELSE Done(r.outcome, r.sent, <<RunTelemetry(metrics)>>)

\* The arithmetic without the guard on original_tokens: dividing by 0 raises.
EstimateResult_NoGuard(original_tokens, optimized_tokens) ==
    IF original_tokens.t # "int" \/ optimized_tokens.t # "int"
    THEN Raise(BuiltinError("TypeError",
                            PyStr(<<"unsupported operand type(s) for -">>)))
    ELSE IF original_tokens.n = 0
    THEN Raise(BuiltinError("ZeroDivisionError", PyStr(<<"division by zero">>)))
    ELSE Return(PyDict(
             [original_tokens |-> original_tokens,
              optimized_tokens |-> optimized_tokens,
              estimated_savings |-> PyInt(original_tokens.n - optimized_tokens.n),
              estimated_savings_percent |->
                  PyHundredths(RoundHalfEven(
                      (original_tokens.n - optimized_tokens.n) * 10000,
                      original_tokens.n))]))

\* The arithmetic of estimate_tokens on the two counts.
EstimateResult(original_tokens, optimized_tokens) ==
    IF original_tokens.t # "int" \/ optimized_tokens.t # "int"
    THEN Raise(BuiltinError("TypeError",
                            PyStr(<<"unsupported operand type(s) for -">>)))
    ELSE LET estimated_savings == original_tokens.n - optimized_tokens.n
             estimated_savings_percent ==
                 IF original_tokens.n > 0
                 THEN PyHundredths(RoundHalfEven(estimated_savings * 10000,
                                                 original_tokens.n))
                 ELSE PyInt(0)
         IN  Return(PyDict(
                 [original_tokens |-> original_tokens,
                  optimized_tokens |-> optimized_tokens,
                  estimated_savings |-> PyInt(estimated_savings),
                  estimated_savings_percent |-> estimated_savings_percent]))

\* x or count_tokens(text): count_tokens runs only when x is falsy
OrCount(x, text) == IF Truthy(x) THEN Return(x) ELSE count_tokens(text)

estimate_tokens(self, input_text, mode, format, reply) ==
    IF InvalidText(input_text)
    THEN Done(Raise(ValidationError(PyStr(<<"Input is required and must be a string">>))),
              <<>>, <<>>)
    ELSE LET o == optimize(self, input_text, mode, format, PyNone, reply)
             optimized == o.outcome.value
         IN  IF o.outcome.kind = "raise" THEN o
             ELSE IF optimized.t # "dict"
             THEN Done(Raise(NoAttributeGet), o.sent, o.printed)
             ELSE LET orig == OrCount(Get(optimized, "originalTokens", PyNone),
                                      input_text)
                      opt == OrCount(Get(optimized, "optimizedTokens", PyNone),
                                     Get(optimized, "optimized", PyStr(<<>>)))
                  IN  IF orig.kind = "raise" THEN Done(orig, o.sent, o.printed)
                      ELSE IF opt.kind = "raise"
                      THEN Done(opt, o.sent, o.printed)
                      ELSE Done(EstimateResult(orig.value, opt.value),
                                o.sent, o.printed)

\* v[k]
Subscript(v, k) ==
    IF v.t = "dict"
    THEN IF k \in DOMAIN v.d
         THEN Return(v.d[k])
         ELSE Raise(BuiltinError("KeyError", PyStr(<<"'", k, "'">>)))
    ELSE Raise(BuiltinError("TypeError",
                            PyStr(<<"'", v.t, "' object is not subscriptable by str">>)))

\* The handler without the isinstance test: every exception is wrapped.
Rewrap_All(prefix, outcome) ==
    IF outcome.kind = "raise"
    THEN Raise(TOONParseError(PyStr(<<prefix>> \o Str(outcome.exc.message))))
    ELSE outcome

\* except Exception as e: a YAVIQError is re-raised, anything else becomes
\* TOONParseError(f"{prefix}{e}")
Rewrap(prefix, outcome) ==
    IF outcome.kind = "raise" /\ ~outcome.exc.sdk
    THEN Raise(TOONParseError(PyStr(<<prefix>> \o Str(outcome.exc.message))))
    ELSE outcome

to_toon(self, input_text, format, reply) ==
    IF InvalidText(input_text)
    THEN Done(Raise(ValidationError(PyStr(<<"Input is required and must be a string">>))),
              <<>>, <<>>)
    ELSE LET r == _http_post(self, "/v1/convert-to-toon",
                     PyDict([input |-> input_text, format |-> format]), reply)
             body == IF r.outcome.kind = "raise" THEN r.outcome
                     ELSE Subscript(r.outcome.value, "toon")
         IN  Done(Rewrap("Convert to TOON failed: ", body), r.sent, <<>>)

from_toon(self, toon, reply) ==
    IF InvalidText(toon)
    THEN Done(Raise(ValidationError(PyStr(<<"TOON input is required and must be a string">>))),
              <<>>, <<>>)
    ELSE LET r == _http_post(self, "/v1/convert-from-toon",
                     PyDict([toon |-> toon]), reply)
             body == IF r.outcome.kind = "raise" THEN r.outcome
                     ELSE Subscript(r.outcome.value, "json")
         IN  Done(Rewrap("Convert from TOON failed: ", body), r.sent, <<>>)

convert(self, input_text, format, reply) ==
    IF InvalidText(input_text)
    THEN Done(Raise(ValidationError(PyStr(<<"Input is required and must be a string">>))),
              <<>>, <<>>)
    ELSE LET r == _http_post(self, "/v1/convert-to-toon",
                     PyDict([input |-> input_text,
                             format |-> Or(format, Auto)]), reply)
             toon == Subscript(r.outcome.value, "toon")
             fmt == Subscript(r.outcome.value, "format")
             body == IF r.outcome.kind = "raise" THEN r.outcome
                     ELSE IF toon.kind = "raise" THEN toon
                     ELSE IF fmt.kind = "raise" THEN fmt
                     ELSE Return(PyDict([toon |-> toon.value,
                                         format |-> fmt.value]))
         IN  Done(Rewrap("Convert failed: ", body), r.sent, <<>>)

RECURSIVE JoinStrs(_, _)
\* sep.join(items) for items that are all str
JoinStrs(sep, items) ==
    IF items = <<>> THEN <<>>
    ELSE IF Len(items) = 1 THEN items[1].s
    ELSE items[1].s \o sep \o JoinStrs(sep, Tail(items))

\* sep.join(items): TypeError unless every item is a str
Join(sep, items) ==
    IF \E i \in 1..Len(items) : items[i].t # "str"
    THEN Raise(BuiltinError("TypeError",
                            PyStr(<<"sequence item: expected str instance">>)))
    ELSE Return(PyStr(JoinStrs(sep, items)))

optimize_rag(self, docs, mode, rag_chunk_limit, debug, reply) ==
    LET joined == IF docs.t = "list" THEN Join(<<"\n", "\n">>, docs.items)
                  ELSE Return(docs)
    IN  IF joined.kind = "raise" THEN Done(joined, <<>>, <<>>)
        ELSE IF InvalidText(joined.value)
        THEN Done(Raise(ValidationError(PyStr(<<"Documents are required">>))),
                  <<>>, <<>>)
        ELSE optimize_and_run(self, joined.value, mode, Auto, PyNone,
                              PyBool(TRUE), PyBool(FALSE), PyNone,
                              Or(rag_chunk_limit, PyInt(10)), debug, reply)

compress_history(self, messages, current_input, mode, debug, reply) ==
    IF messages.t # "list" \/ Len(messages.items) = 0
    THEN Done(Raise(ValidationError(PyStr(<<"Messages array is required and must not be empty">>))),
              <<>>, <<>>)
    ELSE IF InvalidText(current_input)
    THEN Done(Raise(ValidationError(PyStr(<<"Current input is required">>))),
              <<>>, <<>>)
    ELSE optimize_and_run(self, current_input, mode, Auto, PyNone,
                          PyBool(FALSE), PyBool(TRUE), messages, PyNone,
                          debug, reply)

-----------------------------------------------------------------------------
\* Inputs: what callers pass and what the server answers

RECURSIVE Words(_)
\* A text of n words separated by single spaces
Words(n) == IF n = 1 THEN <<"a">> ELSE Words(n - 1) \o <<" ", "a">>

\* Caller texts: empty, whitespace only, and 1..MaxWords words
Texts == {PyStr(<<>>), PyStr(<<" ">>)} \cup {PyStr(Words(n)) : n \in 1..MaxWords}

\* Arguments that are not a str
NonStrings == {PyNone, PyInt(5)}

TextInputs == Texts \cup NonStrings

Modes == {"low", "safe", "medium", "balanced", "high", "aggressive", "turbo"}

\* The strings _normalize_mode is called with: the six keys of mode_map and
\* strings that are not keys (lookup is exact: case matters)
NormalizeInputs == Modes \cup {"LOW", "Safe", ""}

\* The modes callers of optimize pass
CallModes == {"low", "medium", "aggressive", "turbo"}

\* docs of optimize_rag: a str, a list of str, a list with a non-str, not a str
DocInputs ==
    {PyStr(<<>>), PyStr(Words(1)), PyNone,
     PyList(<<>>), PyList(<<PyStr(<<>>)>>),
     PyList(<<PyStr(Words(1)), PyStr(Words(MaxWords))>>),
     PyList(<<PyStr(Words(1)), PyInt(5)>>)}

\* messages of compress_history
MessageInputs ==
    {PyNone, PyList(<<>>),
     PyList(<<PyDict([role |-> PyStr(<<"user">>),
                      content |-> PyStr(Words(1))])>>)}

\* Values a 2xx body parses to
OptimizeData ==
    PyDict([optimized |-> PyStr(Words(1)), tokensSaved |-> PyInt(2),
            compression |-> PyInt(50), originalTokens |-> PyInt(3),
            optimizedTokens |-> PyInt(1)])

OkValues ==
    {PyDict([success |-> PyBool(TRUE), data |-> OptimizeData]),
     PyDict([optimized |-> PyStr(Words(1))]),
     PyDict([optimized |-> PyStr(Words(1)), originalTokens |-> PyInt(0),
             optimizedTokens |-> PyInt(0)]),
     EmptyDict,
     PyDict([success |-> PyBool(FALSE), error |-> PyStr(<<"quota">>),
             status |-> PyInt(503)]),
     PyDict([success |-> PyBool(FALSE)]),
     PyDict([success |-> PyBool(TRUE)]),
     PyDict([success |-> PyBool(TRUE), data |-> PyList(<<>>)]),
     PyList(<<>>),
     PyDict([toon |-> PyStr(<<"T">>), format |-> PyStr(<<"json">>)]),
     PyDict([success |-> PyBool(TRUE),
             data |-> PyDict([toon |-> PyStr(<<"T">>)])]),
     PyDict([json |-> PyList(<<PyInt(1)>>)]),
     PyDict([final_answer |-> PyStr(<<"ok">>),
             metrics |-> PyDict([total_tokens_used |-> PyInt(7),
                                 final_total_savings_percent |-> PyStr(<<"40%">>)])]),
     PyDict([metrics |-> PyNone])}

\* Status codes of failed responses
ErrorCodes == {304, 400, 404, 499, 500, 503}

\* Further bodies of failed responses
ErrorBodies ==
    {JsonBody(<<"{message}">>, PyDict([message |-> PyStr(<<"worse">>)])),
     JsonBody(<<"[]">>, PyList(<<>>)),
     TextBody(<<>>)}

Replies ==
    {HttpOk(JsonBody(<<"json">>, v)) : v \in OkValues}
        \cup {HttpOk(TextBody(<<"<html>">>))}
        \cup {HttpError(c, JsonBody(<<"{error}">>,
                                    PyDict([error |-> PyStr(<<"bad">>)]))) :
                c \in ErrorCodes}
        \cup {HttpError(404, b) : b \in ErrorBodies}
        \cup {UrlError("Connection refused")}

-----------------------------------------------------------------------------
\* The state machine

VARIABLES
    client,     \* the client object, PyNone before one is constructed
    method,     \* the public operation called last
    args,       \* its arguments
    reply,      \* the server's answer to its request, NoReply if it sent none
    outcome,    \* Return(value) or Raise(exception)
    sent,       \* the requests it issued
    printed     \* the lines it printed

vars == <<client, method, args, reply, outcome, sent, printed>>

Init ==
    /\ client = PyNone
    /\ method = "none"
    /\ args = EmptyDict.d
    /\ reply = NoReply
    /\ outcome = Return(PyNone)
    /\ sent = <<>>
    /\ printed = <<>>

\* A call of method m with arguments a has done r.
Finish(m, a, rep, r) ==
    /\ method' = m
    /\ args' = a
    /\ reply' = IF r.sent = <<>> THEN NoReply ELSE rep
    /\ outcome' = r.outcome
    /\ sent' = r.sent
    /\ printed' = r.printed

Construct ==
    \E api_key \in {PyNone, PyStr(<<>>), PyStr(<<"k">>)},
       env_key \in {PyStr(<<>>), PyStr(<<"k">>)},
       endpoint \in {PyNone} :
        LET r == ClientInit(api_key, endpoint, env_key, PyStr(DEFAULT_ENDPOINT))
        IN  /\ client' = IF r.kind = "return" THEN r.value ELSE client
            /\ Finish("__init__",
                      [api_key |-> api_key, endpoint |-> endpoint,
                       env_key |-> env_key],
                      NoReply,
                      Done(IF r.kind = "return" THEN Return(PyNone) ELSE r,
                           <<>>, <<>>))

\* The caller sets client.send_telemetry.
SetTelemetry ==
    /\ client # PyNone
    /\ \E b \in BOOLEAN : client' = [client EXCEPT !.send_telemetry = b]
    /\ UNCHANGED <<method, args, reply, outcome, sent, printed>>

CallOptimize ==
    /\ client # PyNone
    /\ \E input_text \in TextInputs, mode \in CallModes, rep \in Replies :
        Finish("optimize", [input_text |-> input_text, mode |-> mode], rep,
               optimize(client, input_text, mode, Auto, PyNone, rep))
    /\ UNCHANGED client

CallOptimizeAndRun ==
    /\ client # PyNone
    /\ \E input_text \in TextInputs, rep \in Replies :
        Finish("optimize_and_run", [input_text |-> input_text], rep,
               optimize_and_run(client, input_text, "balanced", Auto, PyNone,
                                PyBool(FALSE), PyBool(FALSE), PyNone, PyNone,
                                PyBool(FALSE), rep))
    /\ UNCHANGED client

CallEstimateTokens ==
    /\ client # PyNone
    /\ \E input_text \in TextInputs, rep \in Replies :
        Finish("estimate_tokens", [input_text |-> input_text], rep,
               estimate_tokens(client, input_text, "medium", Auto, rep))
    /\ UNCHANGED client

CallToToon ==
    /\ client # PyNone
    /\ \E input_text \in TextInputs, rep \in Replies :
        Finish("to_toon", [input_text |-> input_text], rep,
               to_toon(client, input_text, Auto, rep))
    /\ UNCHANGED client

CallFromToon ==
    /\ client # PyNone
    /\ \E toon \in TextInputs, rep \in Replies :
        Finish("from_toon", [toon |-> toon], rep, from_toon(client, toon, rep))
    /\ UNCHANGED client

CallConvert ==
    /\ client # PyNone
    /\ \E input_text \in TextInputs, rep \in Replies :
        Finish("convert", [input_text |-> input_text], rep,
               convert(client, input_text, PyNone, rep))
    /\ UNCHANGED client

CallOptimizeRag ==
    /\ client # PyNone
    /\ \E docs \in DocInputs, rag_chunk_limit \in {PyNone, PyInt(5)},
          rep \in Replies :
        Finish("optimize_rag",
               [docs |-> docs, rag_chunk_limit |-> rag_chunk_limit], rep,
               optimize_rag(client, docs, "balanced", rag_chunk_limit,
                            PyBool(FALSE), rep))
    /\ UNCHANGED client

CallCompressHistory ==
    /\ client # PyNone
    /\ \E messages \in MessageInputs, current_input \in TextInputs,
          rep \in Replies :
        Finish("compress_history",
               [messages |-> messages, current_input |-> current_input], rep,
               compress_history(client, messages, current_input, "balanced",
                                PyBool(FALSE), rep))
    /\ UNCHANGED client

CallCountTokens ==
    /\ client # PyNone
    /\ \E text \in TextInputs :
        Finish("count_tokens", [text |-> text], NoReply,
               Done(count_tokens(text), <<>>, <<>>))
    /\ UNCHANGED client

\* client._normalize_mode(mode)
CallNormalizeMode ==
    /\ client # PyNone
    /\ \E mode \in NormalizeInputs :
        Finish("_normalize_mode", [mode |-> mode], NoReply,
               Done(Return(PyStr(<<_normalize_mode(mode)>>)), <<>>, <<>>))
    /\ UNCHANGED client

\* client._http_post(path, body)
CallHttpPost ==
    /\ client # PyNone
    /\ \E rep \in Replies :
        LET body == PyDict([input |-> PyStr(Words(1)), format |-> Auto]) IN
        Finish("_http_post", [path |-> "/v1/convert-to-toon", body |-> body],
               rep, _http_post(client, "/v1/convert-to-toon", body, rep)
                        @@ [printed |-> <<>>])
    /\ UNCHANGED client

Next ==
    \/ Construct
    \/ SetTelemetry
    \/ CallOptimize
    \/ CallOptimizeAndRun
    \/ CallEstimateTokens
    \/ CallToToon
    \/ CallFromToon
    \/ CallConvert
    \/ CallOptimizeRag
    \/ CallCompressHistory
    \/ CallCountTokens
    \/ CallNormalizeMode
    \/ CallHttpPost

Spec == Init /\ [][Next]_vars

-----------------------------------------------------------------------------
\* Properties

\* The public methods that perform a network call
NetworkMethods ==
    {"optimize", "optimize_and_run", "estimate_tokens", "to_toon", "from_toon",
     "convert", "optimize_rag", "compress_history"}

ClassifiedCodes ==
    {"NETWORK_ERROR", "VALIDATION_ERROR", "TOON_PARSE_ERROR", "ENGINE_FAILURE",
     "SCHEMA_MISMATCH"}

\* The last call asked the server and the server answered reply.
Asked == method \in NetworkMethods /\ sent # <<>>

\* What the HTTP helper made of the server's answer in the last call
HelperOutcome == _http_post(client, "", PyNone, reply).outcome

\* "empty or not a string"
NotText(v) == v.t # "str" \/ v.s = <<>>

\* C1: a failed HTTP response with status s raises VALIDATION_ERROR when
\* 400 <= s <= 499, ENGINE_FAILURE when s >= 500 and NETWORK_ERROR for any
\* other status; a transport failure (URLError) raises NETWORK_ERROR.  This
\* holds of every public method that calls the helper.
C1_StatusClassification ==
    (Asked /\ reply.kind \in {"http_error", "url_error"}) =>
        /\ outcome.kind = "raise"
        /\ outcome.exc.code =
              IF reply.kind = "url_error" THEN "NETWORK_ERROR"
              ELSE IF 400 <= reply.code /\ reply.code <= 499
              THEN "VALIDATION_ERROR"
              ELSE IF reply.code >= 500 THEN "ENGINE_FAILURE"
              ELSE "NETWORK_ERROR"

C1_Witness ==
    /\ Asked
    /\ reply.kind = "http_error"
    /\ reply.code = 400
    /\ outcome.kind = "raise"
    /\ outcome.exc.code = "VALIDATION_ERROR"

\* C2: the error raised for a 4xx or 5xx response has status_code equal to
\* the HTTP status of the response.
C2_StatusCodeCarried ==
    (Asked /\ reply.kind = "http_error" /\ reply.code >= 400) =>
        /\ outcome.kind = "raise"
        /\ outcome.exc.status_code = PyInt(reply.code)

\* C3: every error a public method with a network call raises is a
\* classified SDK error, whatever the server replied.
C3_AlwaysClassified ==
    (method \in NetworkMethods /\ outcome.kind = "raise") =>
        /\ outcome.exc.sdk
        /\ outcome.exc.code \in ClassifiedCodes

\* The key whose absence from the reply fails the conversion
MissingKey(result) ==
    \/ result.t # "dict"
    \/ method = "to_toon" /\ "toon" \notin DOMAIN result.d
    \/ method = "from_toon" /\ "json" \notin DOMAIN result.d
    \/ method = "convert" /\ {"toon", "format"} \ DOMAIN result.d # {}

\* C4: in to_toon, from_toon and convert a classified error of the HTTP
\* helper reaches the caller unchanged (same code, message, status), and any
\* other failure inside the conversion call, including a reply without the
\* expected key or one that is not a mapping, reaches the caller as
\* TOON_PARSE_ERROR.
C4_ConversionErrors ==
    (Asked /\ method \in {"to_toon", "from_toon", "convert"}) =>
        LET h == HelperOutcome IN
        /\ (h.kind = "raise" /\ h.exc.sdk) => outcome = h
        /\ (h.kind = "raise" /\ ~h.exc.sdk) =>
              outcome.kind = "raise" /\ outcome.exc.code = "TOON_PARSE_ERROR"
        /\ (h.kind = "return" /\ MissingKey(h.value)) =>
              outcome.kind = "raise" /\ outcome.exc.code = "TOON_PARSE_ERROR"
        /\ (h.kind = "return" /\ ~MissingKey(h.value)) =>
              outcome.kind = "return"

C4_Witness ==
    /\ method = "to_toon"
    /\ reply.kind = "url_error"
    /\ outcome.kind = "raise"
    /\ outcome.exc.code = "NETWORK_ERROR"
    /\ outcome.exc.message = PyStr(<<"Network error: ", "Connection refused">>)

\* The input of the last call is empty or not a string (for optimize_rag:
\* the documents, joined when they are a list of strings; for
\* compress_history: also a message list that is empty or not a list).
BadInput ==
    CASE method \in {"optimize", "optimize_and_run", "estimate_tokens",
                     "to_toon", "convert"} -> NotText(args.input_text)
      [] method = "from_toon" -> NotText(args.toon)
      [] method = "optimize_rag" ->
            IF args.docs.t = "list"
            THEN /\ \A i \in 1..Len(args.docs.items) :
                        args.docs.items[i].t = "str"
                 /\ JoinStrs(<<"\n", "\n">>, args.docs.items) = <<>>
            ELSE NotText(args.docs)
      [] method = "compress_history" ->
            \/ args.messages.t # "list"
            \/ args.messages.items = <<>>
            \/ NotText(args.current_input)
      [] OTHER -> FALSE

C6_ConstructionNeedsKey ==
    method = "__init__" =>
        /\ sent = <<>>
        /\ (NotText(args.api_key) /\ NotText(args.env_key)) =>
              /\ outcome.kind = "raise"
              /\ outcome.exc.code = "VALIDATION_ERROR"

C6_Witness ==
    /\ method = "__init__"
    /\ args.api_key = PyNone
    /\ args.env_key = PyStr(<<>>)
    /\ outcome.kind = "raise"
    /\ outcome.exc.code = "VALIDATION_ERROR"
    /\ client = PyNone

\* C7: when the optimize result has the key originalTokens (optimizedTokens),
\* estimate_tokens returns that value as original_tokens (optimized_tokens),
\* for every reported value including 0.
C7_ServerCountsPreferred ==
    (Asked /\ method = "estimate_tokens" /\ outcome.kind = "return") =>
        LET result == HelperOutcome.value IN
        /\ "originalTokens" \in DOMAIN result.d =>
              outcome.value.d.original_tokens = result.d.originalTokens
        /\ "optimizedTokens" \in DOMAIN result.d =>
              outcome.value.d.optimized_tokens = result.d.optimizedTokens

\* C8: when the optimize result lacks originalTokens and optimizedTokens,
\* estimate_tokens returns the heuristic counts of the input and of the
\* optimized text, their difference as estimated_savings, and 0 percent when
\* original_tokens is 0; it never fails with a division by zero.
C8_HeuristicFallback ==
    (Asked /\ method = "estimate_tokens") =>
        /\ outcome.kind = "raise" => outcome.exc.cls # "ZeroDivisionError"
        /\ LET h == HelperOutcome
               text == Get(h.value, "optimized", PyStr(<<>>))
           IN  (/\ h.kind = "return"
                /\ h.value.t = "dict"
                /\ {"originalTokens", "optimizedTokens"} \cap DOMAIN h.value.d = {}
                /\ text.t = "str") =>
                    /\ outcome.kind = "return"
                    /\ LET est == outcome.value.d
                           orig == count_tokens(args.input_text).value
                           opt == count_tokens(text).value
                       IN  /\ est.original_tokens = orig
                           /\ est.optimized_tokens = opt
                           /\ est.estimated_savings = PyInt(orig.n - opt.n)
                           /\ orig.n = 0 => est.estimated_savings_percent = PyInt(0)

C8_Witness ==
    /\ method = "estimate_tokens"
    /\ args.input_text = PyStr(<<" ">>)
    /\ reply = HttpOk(JsonBody(<<"json">>, PyDict([optimized |-> PyStr(Words(1))])))
    /\ outcome.kind = "return"
    /\ outcome.value.d.original_tokens = PyInt(0)
    /\ outcome.value.d.optimized_tokens = PyInt(1)
    /\ outcome.value.d.estimated_savings = PyInt(-1)
    /\ outcome.value.d.estimated_savings_percent = PyInt(0)

\* The last call of optimize or optimize_and_run, made again with the
\* telemetry flag as given
WithTelemetry(flag) ==
    LET c == [client EXCEPT !.send_telemetry = flag] IN
    IF method = "optimize"
    THEN optimize(c, args.input_text, args.mode, Auto, PyNone, reply)
    ELSE optimize_and_run(c, args.input_text, "balanced", Auto, PyNone,
                          PyBool(FALSE), PyBool(FALSE), PyNone, PyNone,
                          PyBool(FALSE), reply)

\* C9: optimize and optimize_and_run return the same value or raise the same
\* error, for the same arguments and the same server reply, whether
\* send_telemetry is true or false.
C9_TelemetryIrrelevant ==
    method \in {"optimize", "optimize_and_run"} =>
        outcome = WithTelemetry(~client.send_telemetry).outcome

\* C10: a call of a public method issues at most one network request,
\* whatever its outcome, and count_tokens issues none.
C10_AtMostOneRequest ==
    /\ Len(sent) <= 1
    /\ method = "count_tokens" => sent = <<>>

C10_Witness ==
    /\ method = "estimate_tokens"
    /\ reply.kind = "url_error"
    /\ outcome.kind = "raise"
    /\ Len(sent) = 1

\* C11: mode normalization is total and idempotent: every string maps into
\* {safe, balanced, aggressive}; low and safe give safe, medium and balanced
\* give balanced, high and aggressive give aggressive, every other string
\* gives balanced; normalizing the result again gives the result.
C11_NormalizeMode ==
    method = "_normalize_mode" =>
        /\ outcome.kind = "return"
        /\ outcome.value.t = "str"
        /\ Len(outcome.value.s) = 1
        /\ LET m == args.mode
               r == outcome.value.s[1]
           IN  /\ r \in {"safe", "balanced", "aggressive"}
               /\ m \in {"low", "safe"} => r = "safe"
               /\ m \in {"medium", "balanced"} => r = "balanced"
               /\ m \in {"high", "aggressive"} => r = "aggressive"
               /\ m \notin {"low", "safe", "medium", "balanced", "high",
                            "aggressive"} => r = "balanced"
               /\ _normalize_mode(r) = r

C11_Witness ==
    /\ method = "_normalize_mode"
    /\ args.mode = "turbo"
    /\ outcome = Return(PyStr(<<"balanced">>))

\* C12: for a 2xx reply with a JSON body the HTTP helper returns the value
\* of data when the reply is a mapping with success = true and a data key,
\* raises ENGINE_FAILURE with the reply's error text and status (500 when
\* the reply gives no status) when the reply is a mapping with
\* success = false, and returns the parsed reply unchanged otherwise.
C12_EnvelopeOutcomes ==
    (method = "_http_post" /\ reply.kind = "ok" /\ reply.body.valid) =>
        LET r == reply.body.json
            success == IF r.t = "dict" /\ "success" \in DOMAIN r.d
                       THEN r.d.success ELSE PyNone
        IN  IF success = PyBool(TRUE) /\ "data" \in DOMAIN r.d
            THEN outcome = Return(r.d.data)
            ELSE IF success = PyBool(FALSE)
            THEN /\ outcome.kind = "raise"
                 /\ outcome.exc.code = "ENGINE_FAILURE"
                 /\ "error" \in DOMAIN r.d => outcome.exc.message = r.d.error
                 /\ ("status" \in DOMAIN r.d /\ Truthy(r.d.status)) =>
                        outcome.exc.status_code = r.d.status
                 /\ "status" \notin DOMAIN r.d =>
                        outcome.exc.status_code = PyInt(500)
            ELSE outcome = Return(r)

C12_Witness ==
    /\ method = "_http_post"
    /\ reply = HttpOk(JsonBody(<<"json">>, PyDict([success |-> PyBool(FALSE)])))
    /\ outcome.kind = "raise"
    /\ outcome.exc.code = "ENGINE_FAILURE"
    /\ outcome.exc.status_code = PyInt(500)
    /\ Len(sent) = 1

====
